---- MODULE Spec2Model ----
(***************************************************************************)
(* Model of ivas_xdpuinfer.cpp: the kernel entry points xlnx_kernel_init,  *)
(* xlnx_kernel_start, xlnx_kernel_done and xlnx_kernel_deinit, the model   *)
(* factory ivas_xinitmodel, the artifact check modelexits, the label       *)
(* loader readlabel, and the heap objects they allocate and release (the   *)
(* private context kpriv, model instances, label tables).                  *)
(*                                                                         *)
(* Pointers are naturals: NULL is 0, a model pointer is an index into      *)
(* `models`, a label pointer an index into `tables`.  A heap object keeps  *)
(* count of how often it was closed / deleted / freed, so a leak is a      *)
(* count of 0 and a double release a count of 2.                           *)
(*                                                                         *)
(* Undefined behaviour (use of the freed context, of a deleted model, a    *)
(* call through a null model pointer, a double free) has two outcomes:     *)
(* the process dies (phase = "Crashed"), or the call runs on with the      *)
(* stale contents of the released memory.                                  *)
(***************************************************************************)
EXTENDS Integers, Sequences, FiniteSets, TLC

\* ------------------------------------------------------------------ bounds
\* Model instances the factory may construct in one behaviour.
MaxModels == 3
\* Label tables readlabel may allocate in one behaviour.
MaxTables == 2
\* Cap of the telemetry frame counter pf.frames.
MaxFrames == 1
\* free (kpriv) calls after which start and deinit are still followed.
MaxCtxFrees == 1
\* Cap of pf.frames in the telemetry specification.
MaxShownFrames == 3
\* Seconds the clock may reach in the telemetry specification.
MaxClock == 3

\* --------------------------------------------------------------- constants
NULL == 0
\* The one context pointer calloc returns in xlnx_kernel_init.
PTR == 1
IVAS_XCLASS_NOTFOUND == -1
RET_TRUE == 1
RET_FAIL == -1

\* Model classes.  Class 2 stands for every class number the switch of
\* ivas_xinitmodel has no case for (its ENABLE_ macro is off, or the number
\* is no class at all).
Classes == {0, 1, 2}
Enabled == {0, 1}
\* Classes whose constructor sets IVAS_XLABEL_REQUIRED.
LabelRequired == {1}

Names == {"m1", "m2", "m3"}
DefaultModelPath == "/usr/share/vitis_ai_library/models/"
ModelRoot == "/models"
MissingRoot == "/nomodels"

\* The files on disk.  A directory is <<root>>, an artifact of a model is
\* <<root, name, name, suffix>>, its label file <<root, name, "label.json">>.
\*   m1: prototxt, xmodel and elf, and a valid label.json
\*   m2: prototxt and elf only, no label.json
\*   m3: xmodel but no prototxt
Disk ==
  { <<ModelRoot>>, <<DefaultModelPath>>,
    <<ModelRoot, "m1", "m1", ".prototxt">>, <<ModelRoot, "m1", "m1", ".xmodel">>,
    <<ModelRoot, "m1", "m1", ".elf">>, <<ModelRoot, "m1", "label.json">>,
    <<ModelRoot, "m2", "m2", ".prototxt">>, <<ModelRoot, "m2", "m2", ".elf">>,
    <<ModelRoot, "m3", "m3", ".xmodel">> }

\* JSON values: a missing key (or a value of another type), a string, an
\* integer, an array.
JNone == [t |-> "none"]
JStr(s) == [t |-> "string", v |-> s]
JInt(n) == [t |-> "integer", v |-> n]
JArr(a) == [t |-> "array", v |-> a]
json_is_string(x) == x.t = "string"
json_is_integer(x) == x.t = "integer"
json_is_array(x) == x.t = "array"

\* The parsed content of the label files on disk: two labels, and one
\* label in the file of model m2 where the disk holds one.
LabelJson(path) ==
  IF Len(path) = 3 /\ path[2] = "m2"
  THEN [ num_labels |-> JInt(1),
         labels |-> JArr(<< [label |-> JInt(0), name |-> JStr("cat"), display_name |-> JStr("Cat")] >>) ]
  ELSE [ num_labels |-> JInt(2),
         labels |-> JArr(<< [label |-> JInt(0), name |-> JStr("cat"), display_name |-> JStr("Cat")],
                            [label |-> JInt(1), name |-> JStr("dog"), display_name |-> JStr("Dog")] >>) ]

VARIABLES
  phase,        \* the host's view: Uninitialized, Initialized, Error,
                \* Deinitialized, or Crashed (the process died)
  kernel_priv,  \* handle->kernel_priv: NULL or PTR
  ctx_allocs,   \* calloc calls for the context
  ctx_frees,    \* free (kpriv) calls
  kpriv,        \* the contents of the context (stale once it is freed)
  models,       \* heap: the model instances constructed so far
  tables,       \* heap: the label tables allocated so far
  lastCall,     \* the last entry point called, its input, its return and
                \* the lines it printed on standard output
  now,          \* the struct timeval the last gettimeofday call filled
  probe,        \* the input and the result of a helper function called on
                \* its own
  disk,         \* the files and directories that exist
  sinkcaps      \* the capabilities added to the handle's sink pad

vars == <<phase, kernel_priv, ctx_allocs, ctx_frees, kpriv, models, tables,
          lastCall, now, probe, disk, sinkcaps>>

\* ------------------------------------------------------------------ helpers
fileexists(path) == path \in disk

\* An artifact check that prefers the .elf file.
modelexitsElfFirst(k) ==
  LET elf_name == <<k.modelpath, k.modelname, k.modelname, ".elf">>
      xmodel_name == <<k.modelpath, k.modelname, k.modelname, ".xmodel">>
      prototxt_name == <<k.modelpath, k.modelname, k.modelname, ".prototxt">>
  IN  IF ~fileexists(prototxt_name) THEN <<>>
      ELSE IF fileexists(elf_name) THEN elf_name
      ELSE IF fileexists(xmodel_name) THEN xmodel_name
      ELSE <<>>

\* modelexits (): the artifact path, or <<>> for the empty string.
modelexits(k) ==
  LET elf_name == <<k.modelpath, k.modelname, k.modelname, ".elf">>
      xmodel_name == <<k.modelpath, k.modelname, k.modelname, ".xmodel">>
      prototxt_name == <<k.modelpath, k.modelname, k.modelname, ".prototxt">>
  IN  IF ~fileexists(prototxt_name) THEN <<>>
      ELSE IF fileexists(xmodel_name) THEN xmodel_name
      ELSE IF fileexists(elf_name) THEN elf_name
      ELSE <<>>

\* readlabel (): parse a label file.  setmax: kpriv->max_labels was set to
\* num (line 202 runs before the array is validated).
EntryOk(e) ==
  /\ json_is_integer(e.label)
  /\ json_is_string(e.name)
  /\ json_is_string(e.display_name)

ArrayOk(num_labels, karray) ==
  /\ json_is_array(karray)
  /\ num_labels = Len(karray.v)
  /\ \A i \in 1..num_labels : EntryOk(karray.v[i])

\* A slot of the table as calloc leaves it, and as the loop fills it from
\* entry e (lines 244-263).
EmptySlot == [filled |-> FALSE, label |-> 0, name |-> "", display_name |-> ""]
FilledSlot(e) ==
  [filled |-> TRUE, label |-> e.label.v, name |-> e.name.v,
   display_name |-> e.display_name.v]

\* The entries the loop of lines 227-266 reaches before it returns: all of
\* them, or those up to the first that fails a check.
Reached(karray) ==
  {i \in 1..Len(karray) : \A j \in 1..(i - 1) : EntryOk(karray[j])}

\* Lines 244-245: entry i is reached and its "label" is an integer, so
\* labelptr + label is written.
Writes(karray, i) == i \in Reached(karray) /\ json_is_integer(karray[i].label)

\* A write of lines 244-245 lands outside the num_labels slots allocated.
WritesOutside(num_labels, karray) ==
  /\ json_is_array(karray)
  /\ num_labels = Len(karray.v)
  /\ \E i \in 1..Len(karray.v) :
       /\ Writes(karray.v, i)
       /\ karray.v[i].label.v \notin 0..(num_labels - 1)

\* The table the loop leaves when every entry passed: slot n + 1 holds the
\* last entry whose "label" is n, or is as calloc left it.
Slots(num_labels, karray) ==
  [n \in 1..num_labels |->
     IF \E i \in 1..Len(karray) : karray[i].label.v = n - 1
     THEN FilledSlot(karray[CHOOSE i \in 1..Len(karray) :
                              /\ karray[i].label.v = n - 1
                              /\ \A j \in (i + 1)..Len(karray) :
                                    karray[j].label.v # n - 1])
     ELSE EmptySlot]

\* readlabel (): table: a table is returned; slots: its content; ub: a
\* slot outside the table was written.
readlabel(json) ==
  IF ~json_is_integer(json.num_labels)
  THEN [table |-> FALSE, setmax |-> FALSE, num |-> 0, slots |-> <<>>, ub |-> FALSE]
  ELSE [table |-> ArrayOk(json.num_labels.v, json.labels), setmax |-> TRUE,
        num |-> json.num_labels.v,
        slots |-> IF ArrayOk(json.num_labels.v, json.labels)
                  THEN Slots(json.num_labels.v, json.labels.v) ELSE <<>>,
        ub |-> WritesOutside(json.num_labels.v, json.labels)]

\* What the constructor of a model class leaves in kpriv->labelflags.
ConstructorFlags(modelclass, labelptr) ==
  IF modelclass \in LabelRequired
  THEN {"REQUIRED"} \cup (IF labelptr = NULL THEN {"NOT_FOUND"} ELSE {})
  ELSE {"NOT_REQUIRED"}

\* What the calls of ivas_xsetcaps into the capability library return:
\* ivas_caps_new and ivas_caps_add_to_sink for the model's capability, then
\* for the range capability.
CapsOk == [new1 |-> TRUE, add1 |-> TRUE, new2 |-> TRUE, add2 |-> TRUE]
CapsOutcomes ==
  { CapsOk, [CapsOk EXCEPT !.new1 = FALSE], [CapsOk EXCEPT !.add1 = FALSE],
    [CapsOk EXCEPT !.new2 = FALSE], [CapsOk EXCEPT !.add2 = FALSE] }

\* Lines 327-329: the capability of the model of context k, its required
\* height and width (those of the model named) and kpriv->modelfmt.
ModelCaps(k) == [range |-> FALSE, model |-> k.modelname, fmts |-> {k.modelfmt}]

\* Lines 336-338: heights 1 to 1024, widths 1 to 1920, BGR and RGB.
RangeCaps ==
  [range |-> TRUE, model |-> "", fmts |-> {"IVAS_VFMT_BGR8", "IVAS_VFMT_RGB8"}]

\* ivas_xsetcaps (): the sink capabilities it leaves and its return value,
\* caps being those of the handle and co what the library calls return.
ivas_xsetcaps(caps, k, co) ==
  IF ~co.new1 THEN [caps |-> caps, ret |-> FALSE]
  ELSE IF ~co.add1 THEN [caps |-> <<>>, ret |-> FALSE]
  ELSE IF ~co.new2 THEN [caps |-> Append(caps, ModelCaps(k)), ret |-> FALSE]
  ELSE IF ~co.add2 THEN [caps |-> <<>>, ret |-> FALSE]
  ELSE [caps |-> Append(Append(caps, ModelCaps(k)), RangeCaps), ret |-> TRUE]

\* A model instance on the heap.
NewModel == [closes |-> 0, deletes |-> 0]

\* model->close (); delete model; on the instance m of heap ms.
Release(ms, m) ==
  [ms EXCEPT ![m].closes = @ + 1, ![m].deletes = @ + 1]

\* The pointer m is used after the instance was deleted.
Dangling(ms, m) == m # NULL /\ ms[m].deletes > 0

\* Lines 432-444 of ivas_xinitmodel, given the result rl of readlabel.
StoreLabels(k, ts, rl) ==
  [ k |-> [k EXCEPT !.labelptr = IF rl.table THEN Len(ts) + 1 ELSE NULL,
                    !.labelflags = {"NOT_REQUIRED"},
                    !.max_labels = IF rl.setmax THEN rl.num ELSE @],
    tables |-> IF rl.table THEN Append(ts, [num |-> rl.num, frees |-> 0]) ELSE ts ]

LoadLabels(k, ts) ==
  StoreLabels(k, ts,
    IF fileexists(<<k.modelpath, k.modelname, "label.json">>)
    THEN readlabel(LabelJson(<<k.modelpath, k.modelname, "label.json">>))
    ELSE [table |-> FALSE, setmax |-> FALSE, num |-> 0, slots |-> <<>>,
          ub |-> FALSE])

\* The instance the label-required rollback closes and deletes (lines
\* 516-517 name kpriv->model, not the local `model` just constructed).
RollbackTarget(k, model) == k.model

\* Lines 516-524: the rollback, closing and deleting instance t.
Rollback(k, ms, ts, t) ==
  [ k |-> [k EXCEPT !.model = NULL, !.modelclass = IVAS_XCLASS_NOTFOUND],
    models |-> IF t = NULL THEN ms ELSE Release(ms, t),
    tables |-> IF k.labelptr # NULL
               THEN [ts EXCEPT ![k.labelptr].frees = @ + 1] ELSE ts,
    ret |-> NULL, ctxfreed |-> 0, setcaps |-> FALSE,
    ub |-> (t = NULL \/ Dangling(ms, t)) ]

\* Lines 514-529, after the constructor ran: k holds its labelflags and the
\* new instance is the last of ms.
Constructed(k, ms, ts) ==
  IF "REQUIRED" \in k.labelflags /\ "NOT_FOUND" \in k.labelflags
  THEN Rollback(k, ms, ts, RollbackTarget(k, Len(ms)))
  ELSE \* ivas_xsetcaps (kpriv, model); return model;  The value
       \* ivas_xsetcaps returns is not read.
       [k |-> k, models |-> ms, tables |-> ts, ret |-> Len(ms),
        ctxfreed |-> 0, setcaps |-> TRUE, ub |-> FALSE]

\* The switch of lines 446-512, l being the context and tables after the
\* label file was read.
Switch(l, ms, modelclass) ==
  IF modelclass \notin Enabled
  THEN \* default: free (kpriv); return NULL;
       [k |-> l.k, models |-> ms, tables |-> l.tables, ret |-> NULL,
        ctxfreed |-> 1, setcaps |-> FALSE, ub |-> FALSE]
  ELSE Constructed(
         [l.k EXCEPT !.labelflags = ConstructorFlags(modelclass, l.k.labelptr)],
         Append(ms, NewModel), l.tables)

\* ivas_xinitmodel (): the result of running to the return, with
\*   ret      the pointer returned (NULL on failure)
\*   ctxfreed the number of free (kpriv) calls made (line 510)
\*   setcaps  ivas_xsetcaps was called (line 527)
\*   ub       undefined behaviour was executed on the way
ivas_xinitmodel(k, ms, ts, modelclass) ==
  Switch(LoadLabels(k, ts), ms, modelclass)

\* -------------------------------------------------------------- telemetry
\* A long long count of microseconds is kept as whole seconds and the
\* microseconds left, sec * 1000000 + usec, as in struct timeval.
Micros(sec, usec) == [sec |-> sec, usec |-> usec]

\* gettimeofday () when d microseconds have passed since the last call.
gettimeofday(tv, d) ==
  Micros(tv.sec + (tv.usec + d) \div 1000000, (tv.usec + d) % 1000000)

\* get_time (): the timeval in microseconds, 42 hours added.
get_time(tv) == Micros(tv.sec + 42 * 60 * 60, tv.usec)

\* a - b in microseconds.
Elapsed(a, b) == (a.sec - b.sec) * 1000000 + (a.usec - b.usec)

\* One digit of the long division by e.
DivStep(x, e) == [q |-> x.q * 10 + (x.r * 10) \div e, r |-> (x.r * 10) % e]

\* n * 1000000 / e as quotient and remainder, e > 0.
DivMicros(n, e) ==
  DivStep(DivStep(DivStep(DivStep(DivStep(DivStep(
    [q |-> n \div e, r |-> n % e], e), e), e), e), e), e)

\* fps < 9.995, fps being frames / (e / 1000000.0).
Below9995(frames, e) == DivMicros(frames * 1000, e).q < 9995

\* A precision that changes at 10.
PrecisionBelowTen(frames, e) ==
  IF e > 0 /\ DivMicros(frames, e).q < 10 THEN 3 ELSE 2

\* The precision argument of the printf calls: (fps < 9.995) ? 3 : 2.
Precision(frames, e) ==
  IF e > 0 /\ Below9995(frames, e) THEN 3 ELSE 2

\* 10^digits.
Pow10(digits) == IF digits = 3 THEN 1000 ELSE 100

\* The quotient x rounded to the nearest integer.
Rounded(x, e) == x.q + (IF 2 * x.r >= e THEN 1 ELSE 0)

\* A throughput that is 0 when no time has elapsed.
FixedNoSentinel(frames, e, digits) ==
  IF e > 0 THEN Rounded(DivMicros(frames * Pow10(digits), e), e) ELSE 0

\* printf ("%6.*f", digits, fps): fps in units of 10^-digits, rounded to
\* the nearest; fps is 999.99 when no time has elapsed.
Fixed(frames, e, digits) ==
  IF e > 0 THEN Rounded(DivMicros(frames * Pow10(digits), e), e) ELSE 99999

\* The line "frame=%5lu fps=%6.*f" printed for `count` frames in all, the
\* throughput being `frames` frames in e microseconds.
FpsLine(count, frames, e) ==
  [frame |-> count, digits |-> Precision(frames, e),
   fps |-> Fixed(frames, e, Precision(frames, e))]

\* --------------------------------------------------------- configuration
\* Pixel-format names are sequences of characters, so that the prefix
\* comparison of ivas_fmt_to_xfmt is computed.
FmtNames ==
  { <<"B","G","R">>, <<"N","V","1","2">> }

\* strncmp (name, lit, 3) == 0
strncmp3(name, lit) ==
  \A i \in 1..3 :
     /\ i <= Len(name)
     /\ name[i] = lit[i]

ivas_fmt_to_xfmt(name) ==
  IF strncmp3(name, <<"R","G","B">>) THEN "IVAS_VFMT_RGB8"
  ELSE IF strncmp3(name, <<"B","G","R">>) THEN "IVAS_VFMT_BGR8"
  ELSE "IVAS_VMFT_UNKNOWN"

\* The class-name table; the class number is the position, counted from 0.
ivas_xmodelclass == <<"CLASSIFICATION", "YOLOV3", "SSD">>

ivas_xclass_to_num(name) ==
  IF \E n \in 1..Len(ivas_xmodelclass) : ivas_xmodelclass[n] = name
  THEN (CHOOSE n \in 1..Len(ivas_xmodelclass) :
          /\ ivas_xmodelclass[n] = name
          /\ \A j \in 1..(n - 1) : ivas_xmodelclass[j] # name) - 1
  ELSE IVAS_XCLASS_NOTFOUND

\* The kernel configurations.  run_time_model and performance_test hold
\* the value the parse yields (a missing key reads as false).
Configs ==
  [ run_time_model : BOOLEAN,
    performance_test : BOOLEAN,
    model_format : {JStr(f) : f \in FmtNames} \cup {JNone},
    model_path : {JStr(ModelRoot), JStr(MissingRoot), JNone},
    model_class : {JStr("CLASSIFICATION"), JStr("YOLOV3"), JStr("SSD"),
                   JStr("UNKNOWN_THING"), JNone},
    model_name : {JStr(n) : n \in Names} \cup {JNone} ]

\* The configurations of the lifecycle specification (telemetry off) and
\* of the telemetry specification (telemetry on).
CacheConfigs == {c \in Configs : ~c.performance_test}
PerfConfigs == {c \in Configs : c.performance_test}

\* The context as calloc returns it.
ZeroPriv ==
  [ run_time_model |-> FALSE, performance_test |-> FALSE,
    modelfmt |-> "IVAS_VMFT_UNKNOWN", modelpath |-> "",
    modelclass |-> 0, modelname |-> "", elfname |-> <<>>,
    model |-> NULL, labelptr |-> NULL, labelflags |-> {}, max_labels |-> 0,
    mlist |-> <<>>,
    pf |-> [frames |-> 0, test_started |-> FALSE, last_displayed_frame |-> 0,
            timer_start |-> Micros(0, 0), last_displayed_time |-> Micros(0, 0)] ]

\* No configuration: the call was not an init.
NoConfig == [run_time_model |-> FALSE]

\* lastCall.ret is 0 while no call has returned a value.
NoCall ==
  [op |-> "none", ret |-> 0, err |-> "", cls |-> IVAS_XCLASS_NOTFOUND, name |-> "",
   cfg |-> NoConfig, printed |-> <<>>]

Call(op, ret, err) ==
  [op |-> op, ret |-> ret, err |-> err, cls |-> IVAS_XCLASS_NOTFOUND, name |-> "",
   cfg |-> NoConfig, printed |-> <<>>]

\* The process dies inside entry point `op`: its memory (the context and
\* the heap) is gone with it; the allocation counters stay as history.
Crash(op, cls, name) ==
  /\ phase' = "Crashed"
  /\ lastCall' = [op |-> op, ret |-> 0, err |-> "crash", cls |-> cls, name |-> name,
                  cfg |-> NoConfig, printed |-> <<>>]
  /\ kpriv' = ZeroPriv
  /\ models' = <<>>
  /\ tables' = <<>>
  /\ sinkcaps' = <<>>
  /\ UNCHANGED <<kernel_priv, ctx_allocs, ctx_frees, now, probe, disk>>

\* The clock does not advance between two reads.
Steady == {0}
\* Microseconds between two reads of the clock in the telemetry
\* specification: none, just under the display period, the period.
Ticks == {0, 999999, 1000000}

\* What the host and the system give the entry points in a specification:
\* the configurations init is called with, the microseconds between two
\* reads of the clock, the cap of the frame counter, and what the
\* capability library returns.
LifecycleEnv ==
  [cfgs |-> CacheConfigs, ticks |-> Steady, frames |-> MaxFrames,
   caps |-> {CapsOk}]
PerfEnv ==
  [cfgs |-> PerfConfigs, ticks |-> Steady, frames |-> MaxFrames,
   caps |-> {CapsOk}]

\* ------------------------------------------------------------------- init
\* A missing model-path that leaves the search root empty.
ModelPathNoDefault(val) == IF ~json_is_string(val) THEN "" ELSE val.v

\* Lines 615-623: the search root, val being the value of model-path.
ModelPath(val) == IF ~json_is_string(val) THEN DefaultModelPath ELSE val.v

\* Lines 563-623: the fields parsed from the configuration before the
\* first check.
ParseConfig(c) ==
  [ZeroPriv EXCEPT
     !.run_time_model = c.run_time_model,
     !.performance_test = c.performance_test,
     !.modelfmt = IF ~json_is_string(c.model_format) THEN "IVAS_VFMT_BGR8"
                  ELSE ivas_fmt_to_xfmt(c.model_format.v),
     !.modelpath = ModelPath(c.model_path)]

\* Lines 639-645: the class number of static mode.
ParseClass(k, c) ==
  [k EXCEPT !.modelclass = IF json_is_string(c.model_class)
                           THEN ivas_xclass_to_num(c.model_class.v) ELSE @]

\* Lines 659-661: the name and the artifact of static mode.
ParseName(k, c) ==
  [k EXCEPT !.modelname = c.model_name.v,
            !.elfname = modelexits([k EXCEPT !.modelname = c.model_name.v])]

\* init returns failure through err: with one free (kpriv).
InitFail(k, ms, ts, e) ==
  [k |-> k, models |-> ms, tables |-> ts, ret |-> RET_FAIL, err |-> e,
   frees |-> 1, setcaps |-> FALSE, ub |-> FALSE]

\* Lines 673-685, o being what ivas_xinitmodel did.
InitModel(o) ==
  IF o.ret = NULL
  THEN \* kpriv->model = NULL is stored, then err: free (kpriv) once more
       [k |-> [o.k EXCEPT !.model = NULL], models |-> o.models,
        tables |-> o.tables, ret |-> RET_FAIL, err |-> "InitModelFailed",
        frees |-> o.ctxfreed + 1, setcaps |-> o.setcaps,
        ub |-> (o.ub \/ o.ctxfreed > 0)]
  ELSE [k |-> [o.k EXCEPT !.model = o.ret], models |-> o.models,
        tables |-> o.tables, ret |-> RET_TRUE, err |-> "", frees |-> 0,
        setcaps |-> o.setcaps, ub |-> FALSE]

\* Lines 662-681, k holding the name and the artifact.
InitNamed(k, ms, ts) ==
  IF k.elfname = <<>> THEN InitFail(k, ms, ts, "ModelArtifactNotFound")
  ELSE InitModel(ivas_xinitmodel(k, ms, ts, k.modelclass))

\* Lines 639-658: static mode, k holding the parsed class.
InitStatic(k, c, ms, ts) ==
  IF ~json_is_string(c.model_class) THEN InitFail(k, ms, ts, "ModelClassMissing")
  ELSE IF k.modelclass = IVAS_XCLASS_NOTFOUND
  THEN InitFail(k, ms, ts, "UnsupportedModelClass")
  ELSE IF ~json_is_string(c.model_name) THEN InitFail(k, ms, ts, "ModelNameMissing")
  ELSE InitNamed(ParseName(k, c), ms, ts)

\* Lines 604-637, k holding the parsed configuration.
InitChecks(k, c, ms, ts) ==
  IF k.modelfmt = "IVAS_VMFT_UNKNOWN"
  THEN InitFail(k, ms, ts, "UnsupportedImageFormat")
  ELSE IF ~fileexists(<<k.modelpath>>) THEN InitFail(k, ms, ts, "ModelPathMissing")
  ELSE IF k.run_time_model
  THEN [k |-> k, models |-> ms, tables |-> ts, ret |-> RET_TRUE, err |-> "",
        frees |-> 0, setcaps |-> FALSE, ub |-> FALSE]
  ELSE InitStatic(ParseClass(k, c), c, ms, ts)

\* xlnx_kernel_init () up to its return, for configuration c:
\*   ret/err  the return value and the failing check
\*   frees    the free (kpriv) calls made
\*   ub       undefined behaviour was executed
InitOutcome(c, ms, ts) == InitChecks(ParseConfig(c), c, ms, ts)

\* An init that registers the context before it validates.
InitErrPrivRegistered(h) == PTR

\* What the err: label of xlnx_kernel_init leaves in handle->kernel_priv:
\* the failure paths never register the context.
InitErrPriv(h) == h

InitReturns(o, c, co) ==
  /\ ctx_allocs' = ctx_allocs + 1
  /\ ctx_frees' = ctx_frees + o.frees
  /\ kpriv' = o.k
  /\ models' = o.models
  /\ tables' = o.tables
  /\ kernel_priv' = IF o.ret = RET_TRUE THEN PTR ELSE InitErrPriv(kernel_priv)
  /\ phase' = IF o.ret = RET_TRUE THEN "Initialized" ELSE "Error"
  /\ lastCall' = [Call("init", o.ret, o.err) EXCEPT !.cfg = c]
  /\ sinkcaps' = IF o.setcaps THEN ivas_xsetcaps(sinkcaps, o.k, co).caps ELSE sinkcaps
  /\ UNCHANGED <<now, probe, disk>>

InitStep(o, c, co) ==
  /\ Len(o.models) <= MaxModels
  /\ Len(o.tables) <= MaxTables
  /\ \E crash \in (IF o.ub THEN BOOLEAN ELSE {FALSE}) :
       IF crash THEN Crash("init", IVAS_XCLASS_NOTFOUND, "")
       ELSE InitReturns(o, c, co)

xlnx_kernel_init(env) ==
  /\ phase = "Uninitialized"
  /\ \E c \in env.cfgs, co \in env.caps :
       InitStep(InitOutcome(c, models, tables), c, co)

\* ------------------------------------------------------------------ start
\* The selection metadata an upstream stage attached to the frame; NoMeta
\* when gst_buffer_get_ivas_inp_infer_meta returns NULL.
NoMeta == [present |-> FALSE, ml_class |-> IVAS_XCLASS_NOTFOUND, model_name |-> ""]
Metas ==
  {NoMeta} \cup
  {[present |-> TRUE, ml_class |-> c, model_name |-> n] : c \in Classes, n \in Names}

\* What start reads of a frame besides the metadata: whether the inference
\* meta could be added to the buffer, the frame's format, and whether the
\* model's run () reports success.  The checks are made in this order, so
\* one frame per first failing check is kept, and one that passes them all.
FrameKinds ==
  { [infer_ok |-> TRUE, fmt |-> "IVAS_VFMT_BGR8", run_ok |-> TRUE],
    [infer_ok |-> FALSE, fmt |-> "IVAS_VFMT_BGR8", run_ok |-> TRUE],
    [infer_ok |-> TRUE, fmt |-> "IVAS_VFMT_Y_UV8_420", run_ok |-> TRUE],
    [infer_ok |-> TRUE, fmt |-> "IVAS_VFMT_BGR8", run_ok |-> FALSE] }

\* The inputs of one start call on context k.  Static mode never reads the
\* metadata, so one value stands for all.
Frames(k) ==
  { [meta |-> m, infer_ok |-> x.infer_ok, fmt |-> x.fmt, run_ok |-> x.run_ok] :
      m \in (IF k.run_time_model THEN Metas ELSE {NoMeta}), x \in FrameKinds }

\* The pair start read from the metadata (lines 758-759); none in static
\* mode or when the frame carries no metadata.
ReadPair(k, meta) ==
  IF k.run_time_model /\ meta.present
  THEN [cls |-> meta.ml_class, name |-> meta.model_name]
  ELSE [cls |-> IVAS_XCLASS_NOTFOUND, name |-> ""]

\* A lookup that compares the class alone.
EntryMatchesClassOnly(e, ml_class, model_name) ==
  e.modelclass = ml_class

\* An entry of mlist matches the requested pair (lines 772-773).
EntryMatches(e, ml_class, model_name) ==
  /\ e.modelclass = ml_class
  /\ e.modelname = model_name

\* The loop of lines 771-779: the index of the first matching entry, 0 when
\* there is none.
Lookup(mlist, ml_class, model_name) ==
  IF \E i \in 1..Len(mlist) : EntryMatches(mlist[i], ml_class, model_name)
  THEN CHOOSE i \in 1..Len(mlist) :
         /\ EntryMatches(mlist[i], ml_class, model_name)
         /\ \A j \in 1..(i - 1) : ~EntryMatches(mlist[j], ml_class, model_name)
  ELSE 0

\* The resolution of the frame's model ended without touching the heap.
Resolved(k, ms, ts, e) ==
  [k |-> k, models |-> ms, tables |-> ts, err |-> e, ctxfreed |-> 0,
   setcaps |-> FALSE, ub |-> FALSE]

\* Lines 758-764: the requested class and name and the artifact are stored.
StoreRequest(k, meta) ==
  [k EXCEPT !.modelclass = meta.ml_class,
            !.modelname = meta.model_name,
            !.elfname = modelexits([k EXCEPT !.modelname = meta.model_name])]

\* A failure path that drops the active model and label table.
ArtifactMissingClears(k) == [k EXCEPT !.model = NULL, !.labelptr = NULL]

\* Lines 765-769: the context when no artifact was found.
ArtifactMissing(k) == k

\* Lines 781-783: a hit makes entry i active.
Hit(k, i) ==
  [k EXCEPT !.model = k.mlist[i].model, !.labelptr = k.mlist[i].labelptr]

\* Lines 786-796: a miss, o being what ivas_xinitmodel did.
Miss(o, meta) ==
  IF o.ret = NULL
  THEN [k |-> [o.k EXCEPT !.model = NULL], models |-> o.models,
        tables |-> o.tables, err |-> "InitModelFailed",
        ctxfreed |-> o.ctxfreed, setcaps |-> o.setcaps,
        ub |-> (o.ub \/ o.ctxfreed > 0)]
  ELSE [k |-> [o.k EXCEPT !.model = o.ret,
                          !.mlist = Append(@, [modelclass |-> meta.ml_class,
                                               modelname |-> meta.model_name,
                                               model |-> o.ret,
                                               labelptr |-> o.k.labelptr])],
        models |-> o.models, tables |-> o.tables, err |-> "",
        ctxfreed |-> 0, setcaps |-> o.setcaps, ub |-> FALSE]

\* Lines 765-797, k holding the request and i the result of the lookup.
Select(k, ms, ts, meta, i) ==
  IF k.elfname = <<>> THEN Resolved(ArtifactMissing(k), ms, ts, "ModelArtifactNotFound")
  ELSE IF i # 0 THEN Resolved(Hit(k, i), ms, ts, "")
  ELSE Miss(ivas_xinitmodel(k, ms, ts, k.modelclass), meta)

\* A resolution that enters the static model into the cache.
ResolveStaticCaches(k, ms, ts, meta) ==
  IF ~k.run_time_model
  THEN Resolved([k EXCEPT !.mlist = Append(@, [modelclass |-> k.modelclass,
                                               modelname |-> k.modelname,
                                               model |-> k.model,
                                               labelptr |-> k.labelptr])],
                ms, ts, "")
  ELSE IF ~meta.present THEN Resolved(k, ms, ts, "RuntimeMetadataMissing")
  ELSE Select(StoreRequest(k, meta), ms, ts, meta,
              Lookup(k.mlist, meta.ml_class, meta.model_name))

\* Lines 748-798: resolve the model of the frame.  err is "" when the code
\* goes on to line 800.
Resolve(k, ms, ts, meta) ==
  IF ~k.run_time_model THEN Resolved(k, ms, ts, "")
  ELSE IF ~meta.present THEN Resolved(k, ms, ts, "RuntimeMetadataMissing")
  ELSE Select(StoreRequest(k, meta), ms, ts, meta,
              Lookup(k.mlist, meta.ml_class, meta.model_name))

\* The context k when the clock was last read as tv, and the lines printed.
Timed(k, tv, printed) == [k |-> k, now |-> tv, printed |-> printed]

\* Lines 823-827: the first frame starts the telemetry; the clock is read
\* d microseconds after the last read.
StartTest(k, tv, d) ==
  IF k.performance_test /\ ~k.pf.test_started
  THEN Timed([k EXCEPT !.pf.timer_start = get_time(gettimeofday(tv, d)),
                       !.pf.last_displayed_time = get_time(gettimeofday(tv, d)),
                       !.pf.test_started = TRUE],
             gettimeofday(tv, d), <<>>)
  ELSE Timed(k, tv, <<>>)

\* Lines 849-850: the frame counter after the model ran with result ret.
CountFrame(pf, ret) == [pf EXCEPT !.frames = @ + 1]

\* A rolling line that is due only after more than the period.
DisplayDueStrict(pf, tv) == Elapsed(get_time(tv), pf.last_displayed_time) > 1000000

\* Line 851: the rolling line is due when the clock reads tv.
DisplayDue(pf, tv) == Elapsed(get_time(tv), pf.last_displayed_time) >= 1000000

\* Lines 852-861: the clock is read again as tv, the rolling line is
\* printed, the display timestamp and the frame baseline are updated.
Display(k, tv) ==
  Timed([k EXCEPT !.pf.last_displayed_time = get_time(tv),
                  !.pf.last_displayed_frame = k.pf.frames],
        tv,
        << FpsLine(k.pf.frames, k.pf.frames - k.pf.last_displayed_frame,
                   Elapsed(get_time(tv), k.pf.last_displayed_time)) >>)

\* Lines 851-862, k holding the counted frame and tv being the clock as
\* line 851 reads it.
Rolling(k, tv, d) ==
  IF DisplayDue(k.pf, tv) THEN Display(k, gettimeofday(tv, d))
  ELSE Timed(k, tv, <<>>)

\* Lines 847-865, s being the context and the clock after line 827.
Ran(s, ret, d2, d3) ==
  IF s.k.performance_test /\ s.k.pf.test_started
  THEN Rolling([s.k EXCEPT !.pf = CountFrame(@, ret)], gettimeofday(s.now, d2), d3)
  ELSE s

\* The frame was refused before the model ran.
Refused(k, tv, e) ==
  [k |-> k, ret |-> RET_FAIL, err |-> e, ub |-> FALSE, now |-> tv, printed |-> <<>>]

\* Lines 847-865 with their return value, s being what Ran left.
RanFrame(s, k, ms, f) ==
  [k |-> s.k, now |-> s.now, printed |-> s.printed,
   ret |-> IF f.run_ok THEN RET_TRUE ELSE RET_FAIL,
   err |-> IF f.run_ok THEN "" ELSE "ModelRunFailure",
   \* kpriv->model->requiredwidth () and run () on the active model
   ub |-> (k.model = NULL \/ Dangling(ms, k.model))]

\* Lines 800-865: run the active model on the frame; ds are the
\* microseconds before each of the three reads of the clock.
RunFrame(k, ms, f, tv, ds) ==
  IF ~f.infer_ok THEN Refused(k, tv, "NoInferMeta")
  ELSE IF f.fmt \notin {"IVAS_VFMT_BGR8", "IVAS_VFMT_RGB8"}
  THEN Refused(k, tv, "UnsupportedFormat")
  ELSE RanFrame(Ran(StartTest(k, tv, ds[1]),
                    IF f.run_ok THEN RET_TRUE ELSE RET_FAIL, ds[2], ds[3]),
                k, ms, f)

\* The result of start, r being the resolution and g the run of the frame.
StartResult(r, g, tv) ==
  IF r.err # ""
  THEN [k |-> r.k, models |-> r.models, tables |-> r.tables,
        ret |-> RET_FAIL, err |-> r.err, ctxfreed |-> r.ctxfreed, ub |-> r.ub,
        setcaps |-> r.setcaps, now |-> tv, printed |-> <<>>]
  ELSE [k |-> g.k, models |-> r.models, tables |-> r.tables,
        ret |-> g.ret, err |-> g.err, ctxfreed |-> 0, ub |-> (r.ub \/ g.ub),
        setcaps |-> r.setcaps, now |-> g.now, printed |-> g.printed]

StartRun(r, f, tv, ds) == StartResult(r, RunFrame(r.k, r.models, f, tv, ds), tv)

\* xlnx_kernel_start () up to its return.
StartOutcome(k, ms, ts, f, tv, ds) ==
  StartRun(Resolve(k, ms, ts, f.meta), f, tv, ds)

StartReturns(o, p, co) ==
  /\ kpriv' = o.k
  /\ models' = o.models
  /\ tables' = o.tables
  /\ ctx_frees' = ctx_frees + o.ctxfreed
  /\ now' = o.now
  /\ lastCall' = [op |-> "start", ret |-> o.ret, err |-> o.err,
                  cls |-> p.cls, name |-> p.name, cfg |-> NoConfig,
                  printed |-> o.printed]
  /\ sinkcaps' = IF o.setcaps THEN ivas_xsetcaps(sinkcaps, o.k, co).caps ELSE sinkcaps
  /\ UNCHANGED <<phase, kernel_priv, ctx_allocs, probe, disk>>

\* A call on a context that was freed before is a use after free.
StartStep(o, p, env, co) ==
  /\ Len(o.models) <= MaxModels
  /\ Len(o.tables) <= MaxTables
  /\ o.k.pf.frames <= env.frames
  /\ o.now.sec <= MaxClock
  /\ ctx_frees + o.ctxfreed <= MaxCtxFrees
  /\ \E crash \in (IF o.ub \/ ctx_frees > 0 THEN BOOLEAN ELSE {FALSE}) :
       IF crash THEN Crash("start", p.cls, p.name) ELSE StartReturns(o, p, co)

xlnx_kernel_start(env) ==
  /\ phase = "Initialized"
  /\ \E f \in Frames(kpriv), ds \in env.ticks \X env.ticks \X env.ticks,
        co \in env.caps :
       StartStep(StartOutcome(kpriv, models, tables, f, now, ds),
                 ReadPair(kpriv, f.meta), env, co)

\* ------------------------------------------------------------------- done
xlnx_kernel_done ==
  /\ phase = "Initialized"
  /\ \E crash \in (IF ctx_frees > 0 THEN BOOLEAN ELSE {FALSE}) :
       IF crash
       THEN Crash("done", IVAS_XCLASS_NOTFOUND, "")
       ELSE /\ lastCall' = Call("done", RET_TRUE, "")
            /\ UNCHANGED <<phase, kernel_priv, ctx_allocs, ctx_frees, kpriv, models,
                           tables, now, probe, disk, sinkcaps>>

\* ----------------------------------------------------------------- deinit
\* Line 691: deinit returns at once when the handle holds no context.
NoContext(p) == p = NULL

\* handle->kernel_priv when deinit returns (it is never cleared).
DeinitPriv(p) == p

\* Line 709: the mode in which deinit walks mlist.
WalksList(k) == ~k.run_time_model

\* Entry i of mlist is released by the loop of lines 710-717.
Walked(k, i) == WalksList(k) /\ i \in 1..Len(k.mlist) /\ k.mlist[i].model # NULL

\* Lines 710-718: the models of the list are closed and deleted, the list's
\* pointers and kpriv->model cleared.
ReleaseList(k, ms) ==
  [ k |-> IF WalksList(k) /\ Len(k.mlist) > 0
          THEN [k EXCEPT !.model = NULL,
                         !.mlist = [i \in 1..Len(k.mlist) |->
                                      [k.mlist[i] EXCEPT !.model = NULL]]]
          ELSE k,
    models |-> [m \in 1..Len(ms) |->
                  LET n == Cardinality({i \in 1..Len(k.mlist) :
                                          Walked(k, i) /\ k.mlist[i].model = m})
                  IN [closes |-> ms[m].closes + n, deletes |-> ms[m].deletes + n]],
    ub |-> \E i \in 1..Len(k.mlist) : Walked(k, i) /\ Dangling(ms, k.mlist[i].model) ]

\* Line 697: deinit prints the final line.
PrintsFinal(k) == k.performance_test /\ k.pf.test_started

\* Lines 697-702: the final line, the clock being read d microseconds
\* after the last read.
FinalLine(k, tv, d) ==
  IF PrintsFinal(k)
  THEN Timed(k, gettimeofday(tv, d),
             << FpsLine(k.pf.frames, k.pf.frames,
                        Elapsed(get_time(gettimeofday(tv, d)), k.pf.timer_start)) >>)
  ELSE Timed(k, tv, <<>>)

\* Lines 703-707: the counters are reset.
ResetPerf(k) ==
  [k EXCEPT !.pf = [frames |-> 0, test_started |-> FALSE, last_displayed_frame |-> 0,
                    timer_start |-> Micros(0, 0),
                    last_displayed_time |-> Micros(0, 0)]]

\* Lines 719-727, l being the context and the heap after the loop.
ReleaseActive(l, ts) ==
  [ k |-> [l.k EXCEPT !.modelclass = IVAS_XCLASS_NOTFOUND, !.model = NULL],
    models |-> IF l.k.model # NULL THEN Release(l.models, l.k.model) ELSE l.models,
    tables |-> IF l.k.labelptr # NULL
               THEN [ts EXCEPT ![l.k.labelptr].frees = @ + 1] ELSE ts,
    ub |-> \/ l.ub
           \/ Dangling(l.models, l.k.model)
           \/ (l.k.labelptr # NULL /\ ts[l.k.labelptr].frees > 0) ]

\* xlnx_kernel_deinit () from line 693 to its return.
DeinitOutcome(k, ms, ts) == ReleaseActive(ReleaseList(ResetPerf(k), ms), ts)

DeinitReturns(o, final) ==
  /\ kpriv' = o.k
  /\ models' = o.models
  /\ tables' = o.tables
  /\ ctx_frees' = ctx_frees + 1
  /\ kernel_priv' = DeinitPriv(kernel_priv)
  /\ phase' = "Deinitialized"
  /\ now' = final.now
  /\ lastCall' = [Call("deinit", RET_TRUE, "") EXCEPT !.printed = final.printed]
  \* line 729: ivas_caps_free (handle)
  /\ sinkcaps' = <<>>
  /\ UNCHANGED <<ctx_allocs, probe, disk>>

DeinitStep(o, final) ==
  /\ ctx_frees <= MaxCtxFrees
  /\ final.now.sec <= MaxClock
  /\ \E crash \in (IF o.ub \/ ctx_frees > 0 THEN BOOLEAN ELSE {FALSE}) :
       IF crash THEN Crash("deinit", IVAS_XCLASS_NOTFOUND, "")
       ELSE DeinitReturns(o, final)

xlnx_kernel_deinit(env) ==
  /\ phase # "Crashed"
  /\ IF NoContext(kernel_priv)
     THEN /\ lastCall' = Call("deinit", RET_TRUE, "")
          /\ UNCHANGED <<phase, kernel_priv, ctx_allocs, ctx_frees, kpriv, models,
                         tables, now, probe, disk, sinkcaps>>
     ELSE \E d \in env.ticks :
            DeinitStep(DeinitOutcome(kpriv, models, tables), FinalLine(kpriv, now, d))

\* ---------------------------------------------------------- specification
\* No helper function is called on its own.
NoProbe == [fn |-> "none"]

\* The kernel before init.
Unloaded ==
  /\ phase = "Uninitialized"
  /\ kernel_priv = NULL
  /\ ctx_allocs = 0
  /\ ctx_frees = 0
  /\ kpriv = ZeroPriv
  /\ models = <<>>
  /\ tables = <<>>
  /\ lastCall = NoCall
  /\ now = Micros(0, 0)
  /\ sinkcaps = <<>>

Init ==
  /\ Unloaded
  /\ probe = NoProbe
  /\ disk = Disk

\* The lifecycle with telemetry off.
Next ==
  \/ xlnx_kernel_init(LifecycleEnv)
  \/ xlnx_kernel_start(LifecycleEnv)
  \/ xlnx_kernel_done
  \/ xlnx_kernel_deinit(LifecycleEnv)

Spec == Init /\ [][Next]_vars

\* The lifecycle with telemetry on.
NextPerf ==
  \/ xlnx_kernel_init(PerfEnv)
  \/ xlnx_kernel_start(PerfEnv)
  \/ xlnx_kernel_done
  \/ xlnx_kernel_deinit(PerfEnv)

SpecPerf == Init /\ [][NextPerf]_vars

\* The one configuration of the telemetry specification: a static model
\* with telemetry on.
TelemetryConfigs ==
  {c \in PerfConfigs :
     /\ ~c.run_time_model
     /\ c.model_format = JStr(<<"B","G","R">>)
     /\ c.model_path = JStr(ModelRoot)
     /\ c.model_class = JStr("CLASSIFICATION")
     /\ c.model_name = JStr("m1")}

TelemetryEnv ==
  [cfgs |-> TelemetryConfigs, ticks |-> Ticks, frames |-> MaxShownFrames,
   caps |-> {CapsOk}]

\* The lifecycle of a static model with telemetry on and a running clock.
NextTelemetry ==
  \/ xlnx_kernel_init(TelemetryEnv)
  \/ xlnx_kernel_start(TelemetryEnv)
  \/ xlnx_kernel_done
  \/ xlnx_kernel_deinit(TelemetryEnv)

SpecTelemetry == Init /\ [][NextTelemetry]_vars

\* The static model m1 with telemetry on or off.
ThroughputConfigs ==
  {c \in Configs :
     /\ ~c.run_time_model
     /\ c.model_format = JStr(<<"B","G","R">>)
     /\ c.model_path = JStr(ModelRoot)
     /\ c.model_class = JStr("CLASSIFICATION")
     /\ c.model_name = JStr("m1")}

ThroughputEnv ==
  [cfgs |-> ThroughputConfigs, ticks |-> Ticks, frames |-> MaxShownFrames,
   caps |-> {CapsOk}]

\* The lifecycle of a static model with a running clock, telemetry on or
\* off.
NextThroughput ==
  \/ xlnx_kernel_init(ThroughputEnv)
  \/ xlnx_kernel_start(ThroughputEnv)
  \/ xlnx_kernel_done
  \/ xlnx_kernel_deinit(ThroughputEnv)

SpecThroughput == Init /\ [][NextThroughput]_vars

\* ---------------------------------------------------------- configuration
\* The configurations init is called with in the configuration
\* specification: model-format may also name RGB or carry a fourth
\* character, and telemetry may be on or off.
ConfigFormats ==
  { <<"B","G","R">>, <<"R","G","B">>, <<"B","G","R","x">>, <<"N","V","1","2">> }

InitConfigs ==
  [ run_time_model : BOOLEAN,
    performance_test : BOOLEAN,
    model_format : {JStr(f) : f \in ConfigFormats} \cup {JNone},
    model_path : {JStr(ModelRoot), JStr(MissingRoot), JNone},
    model_class : {JStr("CLASSIFICATION"), JStr("YOLOV3"), JStr("SSD"),
                   JStr("UNKNOWN_THING"), JNone},
    model_name : {JStr(n) : n \in Names} \cup {JNone} ]

ConfigEnv ==
  [cfgs |-> InitConfigs, ticks |-> Steady, frames |-> MaxFrames,
   caps |-> CapsOutcomes]

\* The default search root may be missing from the disk.
InitConfig ==
  /\ Unloaded
  /\ probe = NoProbe
  /\ disk \in {Disk, Disk \ {<<DefaultModelPath>>}}

\* init with any configuration, and the deinit that follows.
NextConfig ==
  \/ xlnx_kernel_init(ConfigEnv)
  \/ xlnx_kernel_deinit(ConfigEnv)

SpecConfig == InitConfig /\ [][NextConfig]_vars

\* ------------------------------------------------------- files taken away
\* Runtime mode on the search root that holds the models.
RuntimeConfigs ==
  {c \in CacheConfigs :
     /\ c.run_time_model
     /\ c.model_format = JStr(<<"B","G","R">>)
     /\ c.model_path = JStr(ModelRoot)
     /\ c.model_class = JNone
     /\ c.model_name = JNone}

RuntimeEnv ==
  [cfgs |-> RuntimeConfigs, ticks |-> Steady, frames |-> MaxFrames,
   caps |-> {CapsOk}]

\* Between two calls an artifact of model m1 is removed from the disk, so
\* that the stat of fileexists no longer finds it.
RemoveArtifact ==
  /\ \E f \in disk :
       /\ Len(f) = 4
       /\ f[2] = "m1"
       /\ disk' = disk \ {f}
  /\ UNCHANGED <<phase, kernel_priv, ctx_allocs, ctx_frees, kpriv, models, tables,
                 lastCall, now, probe, sinkcaps>>

\* The lifecycle in runtime mode while files disappear.
NextDisk ==
  \/ xlnx_kernel_init(RuntimeEnv)
  \/ xlnx_kernel_start(RuntimeEnv)
  \/ xlnx_kernel_done
  \/ xlnx_kernel_deinit(RuntimeEnv)
  \/ RemoveArtifact

SpecDisk == Init /\ [][NextDisk]_vars

\* ----------------------------------------------------------- label counts
\* Model m2 has a label file too, declaring one label.
InitLabelCounts ==
  /\ Unloaded
  /\ probe = NoProbe
  /\ disk = Disk \cup {<<ModelRoot, "m2", "label.json">>}

\* The lifecycle in runtime mode.
NextLabelCounts ==
  \/ xlnx_kernel_init(RuntimeEnv)
  \/ xlnx_kernel_start(RuntimeEnv)
  \/ xlnx_kernel_done
  \/ xlnx_kernel_deinit(RuntimeEnv)

SpecLabelCounts == InitLabelCounts /\ [][NextLabelCounts]_vars

\* ------------------------------------------------------------ label files
\* The label files readlabel is called on: num-labels missing or 1 or 2,
\* "labels" missing or an array of up to MaxLabels entries, an entry's
\* "label" missing, below 0, or 0 to 2, its strings missing, empty or not.
MaxLabels == 2
LabelEntries ==
  [ label : {JNone, JInt(-1), JInt(0), JInt(1), JInt(2)},
    name : {JNone, JStr(""), JStr("cat")},
    display_name : {JNone, JStr(""), JStr("Cat")} ]
LabelArrays == UNION { [1..n -> LabelEntries] : n \in 0..MaxLabels }
LabelFiles ==
  [ num_labels : {JNone, JInt(1), JInt(2)},
    labels : {JNone} \cup {JArr(a) : a \in LabelArrays} ]

InitLabels ==
  /\ Unloaded
  /\ disk = Disk
  /\ probe \in [fn : {"readlabel"}, json : LabelFiles, called : {FALSE},
                 crashed : {FALSE}, labelptr : {readlabel(LabelJson(<<>>))}]

\* readlabel () is called on the file probe.json; a write outside the
\* table may end the process.
ReadLabels ==
  /\ ~probe.called
  /\ \E crash \in (IF readlabel(probe.json).ub THEN BOOLEAN ELSE {FALSE}) :
       probe' = [probe EXCEPT !.called = TRUE,
                              !.crashed = crash,
                              !.labelptr = readlabel(probe.json)]
  /\ UNCHANGED <<phase, kernel_priv, ctx_allocs, ctx_frees, kpriv, models, tables,
                 lastCall, now, disk, sinkcaps>>

SpecLabels == InitLabels /\ [][ReadLabels]_vars

\* ----------------------------------------------------- artifact resolution
\* The artifact files of two models; every set of them may be on disk.
ArtifactFiles ==
  { <<ModelRoot, n, n, x>> : n \in {"m1", "m2"}, x \in {".prototxt", ".xmodel", ".elf"} }

InitArtifacts ==
  /\ Unloaded
  /\ disk \in { {<<ModelRoot>>} \cup files : files \in SUBSET ArtifactFiles }
  /\ probe \in [fn : {"modelexits"}, modelname : {"m1", "m2"}, called : {FALSE},
                 elfname : {<<>>}]

\* modelexits () is called for the model probe.modelname under ModelRoot.
ResolveArtifact ==
  /\ ~probe.called
  /\ probe' = [probe EXCEPT
                 !.called = TRUE,
                 !.elfname = modelexits([ZeroPriv EXCEPT !.modelpath = ModelRoot,
                                                        !.modelname = probe.modelname])]
  /\ UNCHANGED <<phase, kernel_priv, ctx_allocs, ctx_frees, kpriv, models, tables,
                 lastCall, now, disk, sinkcaps>>

SpecArtifacts == InitArtifacts /\ [][ResolveArtifact]_vars

\* ------------------------------------------------- throughput formatting
\* Frame counts and elapsed microseconds the throughput is printed for.
MaxFpsFrames == 20
ElapsedTimes == {0, 999999, 1000000, 1000500, 1000501, 1200000, 1250000, 2000000}

InitFps ==
  /\ Unloaded
  /\ probe \in [fn : {"fps"}, frames : 0..MaxFpsFrames, e : ElapsedTimes,
                 printed : {<<>>}]
  /\ disk = Disk

\* The printf call of lines 859-860 and 700-701 for probe.frames frames in
\* probe.e microseconds.
PrintFps ==
  /\ probe.printed = <<>>
  /\ probe' = [probe EXCEPT !.printed = <<FpsLine(probe.frames, probe.frames, probe.e)>>]
  /\ UNCHANGED <<phase, kernel_priv, ctx_allocs, ctx_frees, kpriv, models, tables,
                 lastCall, now, disk, sinkcaps>>

SpecFps == InitFps /\ [][PrintFps]_vars

\* ------------------------------------------------------------------ claims
\* The pair of the last start call is a key of cache list l.
Cached(l, cls, name) ==
  \E i \in 1..Len(l) : l[i].modelclass = cls /\ l[i].modelname = name

\* The first entry of l with that key.
EntryOf(l, cls, name) ==
  l[CHOOSE i \in 1..Len(l) : l[i].modelclass = cls /\ l[i].modelname = name]

\* l is kept as the front of l2.
IsPrefix(l, l2) ==
  /\ Len(l) <= Len(l2)
  /\ \A i \in 1..Len(l) : l2[i] = l[i]

\* C1: in runtime mode a start call carrying a pair that is already in the
\* cache returns with that entry's model and label table active, the model
\* being the live instance that was cached, and constructs no model.
C1_HitReusesInstance ==
  [][ ( /\ lastCall'.op = "start"
        /\ phase = "Initialized"
        /\ kpriv.run_time_model
        /\ Cached(kpriv.mlist, lastCall'.cls, lastCall'.name) )
      => ( /\ phase' = "Initialized"
           /\ kpriv'.model = EntryOf(kpriv.mlist, lastCall'.cls, lastCall'.name).model
           /\ kpriv'.labelptr = EntryOf(kpriv.mlist, lastCall'.cls, lastCall'.name).labelptr
           /\ ~Dangling(models', kpriv'.model)
           /\ Len(models') = Len(models) ) ]_vars

\* C2: the cache never holds two entries with the same (class, name); while
\* the kernel is initialized a step keeps every entry in place and adds at
\* most one, keyed by the requested pair, which was not cached before; and a
\* start whose resolution succeeded leaves the requested pair in the cache.
C2_CacheKeysDistinctAndKept ==
  /\ [](\A i, j \in 1..Len(kpriv.mlist) :
          (/\ kpriv.mlist[i].modelclass = kpriv.mlist[j].modelclass
           /\ kpriv.mlist[i].modelname = kpriv.mlist[j].modelname) => i = j)
  /\ [][ (phase = "Initialized" /\ phase' = "Initialized")
         => ( /\ IsPrefix(kpriv.mlist, kpriv'.mlist)
              /\ Len(kpriv'.mlist) <= Len(kpriv.mlist) + 1
              /\ Len(kpriv'.mlist) > Len(kpriv.mlist)
                   => ( /\ lastCall'.op = "start"
                        /\ ~Cached(kpriv.mlist, lastCall'.cls, lastCall'.name)
                        /\ kpriv'.mlist[Len(kpriv'.mlist)].modelclass = lastCall'.cls
                        /\ kpriv'.mlist[Len(kpriv'.mlist)].modelname = lastCall'.name )
              /\ ( /\ lastCall'.op = "start"
                   /\ kpriv.run_time_model
                   /\ lastCall'.err \notin {"RuntimeMetadataMissing",
                                            "ModelArtifactNotFound", "InitModelFailed"} )
                   => Cached(kpriv'.mlist, lastCall'.cls, lastCall'.name) ) ]_vars

\* A start hit the first of at least two entries.
C2_Witness ==
  /\ phase = "Initialized"
  /\ Len(kpriv.mlist) >= 2
  /\ lastCall.op = "start"
  /\ lastCall.ret = RET_TRUE
  /\ kpriv.mlist[1].modelclass = lastCall.cls
  /\ kpriv.mlist[1].modelname = lastCall.name

\* C3: once deinit has returned, every model of the runtime cache (runtime
\* mode) and every model constructed (static mode) has been closed and
\* deleted exactly once.
C3_ModelsReleasedOnce ==
  phase = "Deinitialized"
  => /\ \A i \in 1..Len(kpriv.mlist) :
          LET m == kpriv.mlist[i].model IN
          m # NULL => (models[m].closes = 1 /\ models[m].deletes = 1)
     /\ ~kpriv.run_time_model
          => \A m \in 1..Len(models) : models[m].closes = 1 /\ models[m].deletes = 1

\* C4: a deinit that follows a deinit returns success and changes nothing:
\* it frees no context, model or label table.
C4_SecondDeinitTouchesNothing ==
  [][ (phase = "Deinitialized" /\ lastCall'.op = "deinit")
      => ( /\ lastCall'.ret = RET_TRUE
           /\ UNCHANGED <<phase, kernel_priv, ctx_frees, kpriv, models, tables>> ) ]_vars

\* C5: while init has not succeeded the handle holds no context, and a
\* deinit called then returns success and frees nothing.
C5_DeinitWithoutContext ==
  /\ [](phase \in {"Uninitialized", "Error"} => kernel_priv = NULL)
  /\ [][ (phase \in {"Uninitialized", "Error"} /\ lastCall'.op = "deinit")
         => ( /\ lastCall'.ret = RET_TRUE
              /\ UNCHANGED <<phase, kernel_priv, ctx_allocs, ctx_frees, kpriv,
                             models, tables>> ) ]_vars

\* deinit returned after an init that failed and freed its context.
C5_Witness ==
  /\ phase = "Error"
  /\ lastCall.op = "deinit"
  /\ lastCall.ret = RET_TRUE
  /\ ctx_allocs = 1
  /\ ctx_frees >= 1

\* C6: after a start call that returned failure the kernel is initialized
\* and its context is registered and was never freed.
C6_FailedStartKeepsContext ==
  (lastCall.op = "start" /\ lastCall.ret = RET_FAIL)
  => (phase = "Initialized" /\ kernel_priv = PTR /\ ctx_frees = 0)

\* C7: an init that returned failure freed the context exactly once,
\* registered nothing, and left no model and no label table allocated.
C7_FailedInitReleasesOnce ==
  (lastCall.op = "init" /\ lastCall.ret = RET_FAIL)
  => ( /\ phase = "Error"
       /\ ctx_frees = 1
       /\ kernel_priv = NULL
       /\ \A m \in 1..Len(models) : models[m].closes = 1 /\ models[m].deletes = 1
       /\ \A t \in 1..Len(tables) : tables[t].frees = 1 )

\* C8: when the factory constructed a model and failed for want of a label
\* table, the new instance was closed and deleted once and every other
\* instance is as it was.
C8_RollbackReleasesNewModel ==
  [][ (lastCall'.err = "InitModelFailed" /\ Len(models') = Len(models) + 1)
      => ( /\ models'[Len(models')].closes = 1
           /\ models'[Len(models')].deletes = 1
           /\ \A m \in 1..Len(models) : models'[m] = models[m] ) ]_vars

\* C9: a start that fails for missing metadata or a missing artifact leaves
\* the cache, the active model and label table, and the heap as they were.
C9_ResolutionFailureKeepsCache ==
  [][ (lastCall'.op = "start"
       /\ lastCall'.err \in {"RuntimeMetadataMissing", "ModelArtifactNotFound"})
      => ( /\ kpriv'.mlist = kpriv.mlist
           /\ kpriv'.model = kpriv.model
           /\ kpriv'.labelptr = kpriv.labelptr
           /\ models' = models
           /\ tables' = tables ) ]_vars

\* A start failed for a missing artifact while a cached model was active.
C9_Witness ==
  /\ phase = "Initialized"
  /\ lastCall.op = "start"
  /\ lastCall.err = "ModelArtifactNotFound"
  /\ Len(kpriv.mlist) >= 1
  /\ kpriv.model # NULL
  /\ kpriv.labelptr # NULL

\* C10: with telemetry on, a start call adds one to the frame counter when
\* it returns success and leaves the counter alone when it returns failure.
C10_FramesCountSuccesses ==
  [][ (lastCall'.op = "start" /\ kpriv.performance_test /\ phase' = "Initialized")
      => kpriv'.pf.frames =
           kpriv.pf.frames + (IF lastCall'.ret = RET_TRUE THEN 1 ELSE 0) ]_vars

\* The display timestamp a start call compares the clock with: the one
\* kept from the last display, or the start timestamp the call itself took
\* when it ran the first frame.
DisplayStamp ==
  IF kpriv.pf.test_started THEN kpriv.pf.last_displayed_time
  ELSE kpriv'.pf.timer_start

\* C11: with telemetry on, a start call that ran the model prints a
\* rolling line if and only if the clock it read is at least 1,000,000
\* microseconds past the display timestamp (the start timestamp of the
\* first frame until a line was printed); it then prints one line, and the
\* display timestamp becomes the time read and the frame baseline the frame
\* count; otherwise it prints nothing and keeps both.
C11_RollingLineEverySecond ==
  [][ ( /\ lastCall'.op = "start"
        /\ lastCall'.err \in {"", "ModelRunFailure"}
        /\ kpriv.performance_test
        /\ phase' = "Initialized" )
      => /\ kpriv'.pf.test_started
         /\ Elapsed(get_time(now'), kpriv'.pf.timer_start) >= 0
         /\ (lastCall'.printed # <<>>)
              <=> Elapsed(get_time(now'), DisplayStamp) >= 1000000
         /\ IF lastCall'.printed # <<>>
            THEN /\ Len(lastCall'.printed) = 1
                 /\ lastCall'.printed[1].frame = kpriv'.pf.frames
                 /\ kpriv'.pf.last_displayed_time = get_time(now')
                 /\ kpriv'.pf.last_displayed_frame = kpriv'.pf.frames
            ELSE /\ kpriv'.pf.last_displayed_time = DisplayStamp
                 /\ kpriv'.pf.last_displayed_frame = kpriv.pf.last_displayed_frame ]_vars

\* The third frame printed the throughput of two frames in one second: the
\* first frame printed a line and the second, within the second, none.
C11_Witness ==
  /\ phase = "Initialized"
  /\ lastCall.op = "start"
  /\ kpriv.pf.frames = 3
  /\ Len(lastCall.printed) = 1
  /\ lastCall.printed[1] = [frame |-> 3, digits |-> 3, fps |-> 2000]
  /\ kpriv.pf.last_displayed_frame = 3

\* d * 1000000 < 1999 * usec for usec < 1000000, without a product above
\* 2^31.
LessMicros(d, usec) ==
  IF d < 0 THEN TRUE
  ELSE IF d >= 1999 THEN FALSE
  ELSE d * 1000000 < 1999 * usec

\* frames / (e / 1000000) < 9.995, that is 200 * frames * 1000000 < 1999 * e,
\* with e split into whole seconds and microseconds.
ValueBelow9995(frames, e) ==
  LessMicros(200 * frames - 1999 * (e \div 1000000), e % 1000000)

\* C12: a throughput line shows three decimal digits when the value
\* frames / seconds is below 9.995 and two otherwise (999.99 when no time
\* has elapsed); 10 frames in 1.2 s are printed as 8.333 and 19 frames in
\* 1.25 s as 15.20.
C12_DigitsByValue ==
  (probe.fn = "fps" /\ probe.printed # <<>>)
  => /\ probe.printed[1].digits = (IF probe.e > 0 /\ ValueBelow9995(probe.frames, probe.e)
                                   THEN 3 ELSE 2)
     /\ probe.e = 0 => probe.printed[1].fps = 99999
     /\ (probe.frames = 10 /\ probe.e = 1200000)
          => probe.printed[1] = [frame |-> 10, digits |-> 3, fps |-> 8333]
     /\ (probe.frames = 19 /\ probe.e = 1250000)
          => probe.printed[1] = [frame |-> 19, digits |-> 2, fps |-> 1520]

\* 10 frames in 1.2 s were printed with three decimal digits.
C12_Witness ==
  /\ probe.fn = "fps"
  /\ probe.frames = 10
  /\ probe.e = 1200000
  /\ probe.printed = <<[frame |-> 10, digits |-> 3, fps |-> 8333]>>

\* C12 as stated: 10 frames in 1.2 s are printed as 8.330.
C12_AsStated ==
  (probe.fn = "fps" /\ probe.printed # <<>>)
  => /\ probe.printed[1].digits = (IF probe.e > 0 /\ ValueBelow9995(probe.frames, probe.e)
                                   THEN 3 ELSE 2)
     /\ (probe.frames = 10 /\ probe.e = 1200000)
          => probe.printed[1] = [frame |-> 10, digits |-> 3, fps |-> 8330]
     /\ (probe.frames = 19 /\ probe.e = 1250000)
          => probe.printed[1] = [frame |-> 19, digits |-> 2, fps |-> 1520]

\* The file <ModelRoot>/<name>/<name><suffix> of the probed model exists.
Has(suffix) == <<ModelRoot, probe.modelname, probe.modelname, suffix>> \in disk

\* C13: artifact resolution fails whenever the .prototxt is absent,
\* whatever else exists; with the .prototxt it returns the .xmodel path if
\* that file exists, else the .elf path if that file exists, and fails
\* only if neither exists.
C13_PrototxtThenXmodelThenElf ==
  (probe.fn = "modelexits" /\ probe.called)
  => /\ ~Has(".prototxt") => probe.elfname = <<>>
     /\ (Has(".prototxt") /\ Has(".xmodel"))
          => probe.elfname = <<ModelRoot, probe.modelname, probe.modelname, ".xmodel">>
     /\ (Has(".prototxt") /\ ~Has(".xmodel") /\ Has(".elf"))
          => probe.elfname = <<ModelRoot, probe.modelname, probe.modelname, ".elf">>
     /\ (Has(".prototxt") /\ ~Has(".xmodel") /\ ~Has(".elf")) => probe.elfname = <<>>

\* All three files exist and the .xmodel path was returned.
C13_Witness ==
  /\ probe.fn = "modelexits"
  /\ probe.called
  /\ Has(".prototxt") /\ Has(".xmodel") /\ Has(".elf")
  /\ probe.elfname = <<ModelRoot, probe.modelname, probe.modelname, ".xmodel">>

\* The pixel-format names the kernel supports.
SupportedFormats == { <<"R","G","B">>, <<"B","G","R">> }

\* C14: init fails with UnsupportedImageFormat whenever model-format is
\* absent, not a string, or a string that is not a supported format name;
\* there is no default.
C14_FormatRequired ==
  ( /\ lastCall.op = "init"
    /\ lastCall.err # "crash"
    /\ \/ ~json_is_string(lastCall.cfg.model_format)
       \/ lastCall.cfg.model_format.v \notin SupportedFormats )
  => (lastCall.ret = RET_FAIL /\ lastCall.err = "UnsupportedImageFormat")

\* The search root init uses for the configuration of the last call.
SearchRoot ==
  IF json_is_string(lastCall.cfg.model_path) THEN lastCall.cfg.model_path.v
  ELSE DefaultModelPath

\* C15: init takes the search root from model-path and, when the key is
\* missing, the documented default; it fails for the path exactly when the
\* format was accepted and that root does not exist on disk, and it never
\* succeeds with a root that does not exist.
C15_DefaultSearchRoot ==
  (lastCall.op = "init" /\ lastCall.err # "crash")
  => /\ kpriv.modelpath = SearchRoot
     /\ (lastCall.err = "ModelPathMissing")
          <=> (lastCall.err # "UnsupportedImageFormat" /\ <<SearchRoot>> \notin disk)
     /\ <<SearchRoot>> \notin disk => lastCall.ret = RET_FAIL
     /\ lastCall.err = "ModelPathMissing" => lastCall.ret = RET_FAIL

\* init was called without model-path while the default root is missing,
\* and failed for the path.
C15_Witness ==
  /\ lastCall.op = "init"
  /\ ~json_is_string(lastCall.cfg.model_path)
  /\ <<DefaultModelPath>> \notin disk
  /\ kpriv.modelpath = DefaultModelPath
  /\ lastCall.ret = RET_FAIL
  /\ lastCall.err = "ModelPathMissing"

\* C16: when init returns success in static mode, the capability of the
\* model built (its required height and width, and the configured format)
\* is among the sink capabilities of the handle, so init does not succeed
\* when publishing it failed.
C16_StaticInitPublishesCaps ==
  ( /\ lastCall.op = "init"
    /\ lastCall.ret = RET_TRUE
    /\ ~lastCall.cfg.run_time_model )
  => \E i \in 1..Len(sinkcaps) : sinkcaps[i] = ModelCaps(kpriv)

\* C17: a table readlabel returns has as many slots as num-labels says, and
\* each slot holds an entry whose name and display name are not empty.
C17_EverySlotNamed ==
  (probe.fn = "readlabel" /\ probe.called /\ ~probe.crashed /\ probe.labelptr.table)
  => /\ Len(probe.labelptr.slots) = probe.json.num_labels.v
     /\ \A n \in 1..Len(probe.labelptr.slots) :
          /\ probe.labelptr.slots[n].filled
          /\ probe.labelptr.slots[n].name # ""
          /\ probe.labelptr.slots[n].display_name # ""

\* An entry of the file whose "label" is an integer outside 0..num-labels-1.
IndexOutside(json) ==
  /\ json_is_integer(json.num_labels)
  /\ json_is_array(json.labels)
  /\ json.num_labels.v = Len(json.labels.v)
  /\ \E i \in 1..Len(json.labels.v) :
       /\ json_is_integer(json.labels.v[i].label)
       /\ json.labels.v[i].label.v \notin 0..(json.num_labels.v - 1)

\* C18: when an entry's index is outside [0, num-labels), readlabel returns
\* no table and has written no slot outside the table it allocated.
C18_IndexOutsideRejected ==
  (probe.fn = "readlabel" /\ probe.called /\ IndexOutside(probe.json))
  => /\ ~probe.crashed
     /\ ~probe.labelptr.table
     /\ ~probe.labelptr.ub

\* The owners of the instance m: the cache entries that hold it and, in
\* static mode, the slot kpriv->model.
Owners(k, m) ==
  Cardinality({i \in 1..Len(k.mlist) : k.mlist[i].model = m})
    + (IF ~k.run_time_model /\ k.model = m THEN 1 ELSE 0)

\* C19: while the context exists, every instance that is not deleted has
\* exactly one owner, and neither kpriv->model nor a cache entry points to
\* a deleted instance.
C19_OneOwnerNoneDeleted ==
  phase = "Initialized"
  => /\ \A m \in 1..Len(models) : models[m].deletes = 0 => Owners(kpriv, m) = 1
     /\ ~Dangling(models, kpriv.model)
     /\ \A i \in 1..Len(kpriv.mlist) : ~Dangling(models, kpriv.mlist[i].model)

\* C20: in runtime mode a start call whose pair is cached does not fail
\* for a missing artifact or a failed construction, whatever files the
\* disk still holds, and leaves the heap of models and label tables as it
\* was.
C20_HitChecksNoArtifact ==
  [][ ( /\ lastCall'.op = "start"
        /\ lastCall'.err # "crash"
        /\ phase = "Initialized"
        /\ kpriv.run_time_model
        /\ Cached(kpriv.mlist, lastCall'.cls, lastCall'.name) )
      => ( /\ lastCall'.err \notin {"ModelArtifactNotFound", "InitModelFailed"}
           /\ kpriv'.model = EntryOf(kpriv.mlist, lastCall'.cls, lastCall'.name).model
           /\ models' = models
           /\ tables' = tables ) ]_vars

\* C21: when the deinit of a live context returns, every label table that
\* was loaded has been freed exactly once.
C21_TablesFreedOnce ==
  [][ ( /\ phase = "Initialized"
        /\ ctx_frees = 0
        /\ lastCall'.op = "deinit"
        /\ phase' = "Deinitialized" )
      => \A t \in 1..Len(tables') : tables'[t].frees = 1 ]_vars

\* The interval a call divides the frames by: deinit the time since the
\* first frame, start the time since the display timestamp.
Interval ==
  IF lastCall'.op = "deinit"
  THEN Elapsed(get_time(now'), kpriv.pf.timer_start)
  ELSE Elapsed(get_time(now'), DisplayStamp)

\* C22: start and deinit print a throughput only with telemetry on and the
\* test started; a throughput over an interval of zero is printed as 999.99
\* and any other is over a positive interval; with telemetry off, start
\* leaves the counters and timestamps as they were.
C22_ThroughputOnlyWhenStarted ==
  [][ ( /\ phase = "Initialized"
        /\ ctx_frees = 0
        /\ lastCall'.op \in {"start", "deinit"}
        /\ lastCall'.err # "crash" )
      => /\ (lastCall'.printed # <<>>)
              => /\ kpriv.performance_test
                 /\ IF lastCall'.op = "start" THEN kpriv'.pf.test_started
                    ELSE kpriv.pf.test_started
         /\ \A i \in 1..Len(lastCall'.printed) :
              IF Interval = 0
              THEN lastCall'.printed[i].fps = 99999 /\ lastCall'.printed[i].digits = 2
              ELSE Interval > 0 /\ lastCall'.printed[i].fps # 99999
         /\ (lastCall'.op = "start" /\ ~kpriv.performance_test)
              => kpriv'.pf = kpriv.pf ]_vars

\* deinit printed 999.99 for one frame counted in no time.
C22_Witness ==
  /\ phase = "Deinitialized"
  /\ lastCall.op = "deinit"
  /\ lastCall.printed = <<[frame |-> 1, digits |-> 2, fps |-> 99999]>>

\* C23: in runtime mode, after a start call that resolved its model,
\* max_labels is the count declared by the label table that is active.
C23_MaxLabelsOfActiveTable ==
  ( /\ phase = "Initialized"
    /\ ctx_frees = 0
    /\ kpriv.run_time_model
    /\ lastCall.op = "start"
    /\ lastCall.err \notin {"RuntimeMetadataMissing", "ModelArtifactNotFound",
                            "InitModelFailed", "crash"}
    /\ kpriv.labelptr # NULL )
  => kpriv.max_labels = tables[kpriv.labelptr].num

\* C24: in static mode, whenever the kernel is initialized the cache is
\* empty and the active model is the live instance init constructed last,
\* and a start call returns with the cache still empty, the same active
\* model and label table, and no model or label table constructed or
\* released.
C24_StaticModeKeepsOneModel ==
  [][ /\ (phase' = "Initialized" /\ ~kpriv'.run_time_model)
           => /\ kpriv'.mlist = <<>>
              /\ kpriv'.model = Len(models')
              /\ kpriv'.model # NULL
              /\ models'[kpriv'.model] = NewModel
      /\ (phase = "Initialized" /\ ~kpriv.run_time_model /\ lastCall'.op = "start")
           => /\ phase' = "Initialized"
              /\ kpriv'.model = kpriv.model
              /\ kpriv'.labelptr = kpriv.labelptr
              /\ models' = models
              /\ tables' = tables ]_vars

\* A start call ran the static model on a frame.
C24_Witness ==
  /\ phase = "Initialized"
  /\ ~kpriv.run_time_model
  /\ lastCall.op = "start"
  /\ lastCall.ret = RET_TRUE
  /\ kpriv.mlist = <<>>
  /\ kpriv.model = 1

====
